---- MODULE Spec2Model ----
(***************************************************************************)
(* A model of netsa.sql (src/python/netsa/sql/__init__.py): the driver     *)
(* registry with its lazy discovery and its dispatch (db_connect,          *)
(* db_create_pool), the URI parser db_parse_uri, and the query template    *)
(* rewriter (db_query, _map_params).                                       *)
(*                                                                         *)
(* Text is a sequence of one-character strings.                            *)
(***************************************************************************)
EXTENDS Integers, Sequences, FiniteSets, TLC

VARIABLES
    drivers,            \* _drivers: the registry list, in registration order
    drivers_init_done,  \* _drivers_init_done
    drivers_lock,       \* _drivers_lock, an RLock: [owner, count]
    sysModules,         \* the driver modules imported so far (sys.modules)
    listing,            \* what os.listdir returned to the discovery in progress
    scanCount,          \* times the scan body of _drivers_init was entered
    thread,             \* per thread: the call in progress and its last outcome
    uri,                \* SpecUri: the text given to db_parse_uri
    parsed,             \* SpecUri: what db_parse_uri made of it
    query,              \* SpecQuery: a db_query, [sql, variants]
    accepted,           \* SpecQuery: accepted_variants
    params,             \* SpecQuery: the caller's bindings
    rewritten           \* SpecQuery: [style, out] of the last rewrite

vars == <<drivers, drivers_init_done, drivers_lock, sysModules, listing,
          scanCount, thread, uri, parsed, query, accepted, params, rewritten>>

registryVars == <<drivers, drivers_init_done, drivers_lock, sysModules,
                  listing, scanCount, thread>>
uriVars == <<uri, parsed>>
queryVars == <<query, accepted, params, rewritten>>

\* Python's None.  It is a tuple, as text, lists and connections are, and it
\* differs from every text: a text holds one-character strings only.
None == <<"None">>

\* the owner of a lock nobody holds
NoThread == "nobody"

Range(s) == {s[i] : i \in DOMAIN s}

\* s[n:] and s[:n] of Python, n counted from 0
Drop(s, n) == SubSeq(s, n + 1, Len(s))
Take(s, n) == SubSeq(s, 1, n)

\* All sequences over S of length at most n
SeqsUpTo(S, n) == UNION {[1..k -> S] : k \in 0..n}

Least(S) == CHOOSE k \in S : \A j \in S : k <= j

\* The members of the list at the positions S, in order
RECURSIVE Pick(_, _)
Pick(ds, S) ==
    IF ds = <<>> THEN <<>>
    ELSE Pick(Take(ds, Len(ds) - 1), S)
         \o (IF Len(ds) \in S THEN <<ds[Len(ds)]>> ELSE <<>>)

\* All orderings of the finite set S
Orderings(S) == {s \in [1..Cardinality(S) -> S] : Range(s) = S}

(***************************************************************************)
(* Exceptions; each is a tuple, as None is                                 *)
(***************************************************************************)
sql_no_driver_exception == <<"sql_no_driver_exception">>
sql_invalid_uri_exception == <<"sql_invalid_uri_exception">>
\* list.remove(x) with x absent
ValueError == <<"ValueError">>
\* params[p] with p absent
KeyError == <<"KeyError">>
\* what a driver module that cannot be loaded raises
ImportError == <<"ImportError">>

\* no rewrite was asked for yet
NotRewritten == [style |-> "none", out |-> [kind |-> "none", value |-> None]]

Raise(e) == [kind |-> "raise", value |-> e]
Return(v) == [kind |-> "return", value |-> v]
NoOutcome == [kind |-> "none", value |-> None]

(***************************************************************************)
(* db_parse_uri                                                            *)
(***************************************************************************)
\* str.find: the 1-based position of the first c in s, 0 when there is none
Find(s, c) ==
    IF \E i \in DOMAIN s : s[i] = c
    THEN CHOOSE i \in DOMAIN s : s[i] = c /\ \A j \in 1..(i - 1) : s[j] # c
    ELSE 0

UpperCase == <<"A", "B", "C", "X", "Y">>
LowerCase == <<"a", "b", "c", "x", "y">>

\* str.lower, on the letters the model uses
lower(s) ==
    [i \in DOMAIN s |->
        IF \E k \in DOMAIN UpperCase : UpperCase[k] = s[i]
        THEN LowerCase[CHOOSE k \in DOMAIN UpperCase : UpperCase[k] = s[i]]
        ELSE s[i]]

startswith(s, p) == Len(s) >= Len(p) /\ Take(s, Len(p)) = p

\* str.split(sep): the pieces between the separators, at least one piece
RECURSIVE split(_, _)
split(s, sep) ==
    LET i == Find(s, sep)
    IN  IF i = 0 THEN <<s>> ELSE <<Take(s, i - 1)>> \o split(Drop(s, i), sep)

\* str.split(sep, 1): at most two pieces
split1(s, sep) ==
    LET i == Find(s, sep)
    IN  IF i = 0 THEN <<s>> ELSE <<Take(s, i - 1), Drop(s, i)>>

HexDigits == <<"0", "1", "2", "3", "4", "5", "6", "7", "8", "9",
               "a", "b", "c", "d", "e", "f">>
HexDigitsUpper == <<"0", "1", "2", "3", "4", "5", "6", "7", "8", "9",
                    "A", "B", "C", "D", "E", "F">>

IsHex(c) == c \in Range(HexDigits) \cup Range(HexDigitsUpper)

HexVal(c) ==
    IF c \in Range(HexDigits)
    THEN (CHOOSE k \in DOMAIN HexDigits : HexDigits[k] = c) - 1
    ELSE (CHOOSE k \in DOMAIN HexDigitsUpper : HexDigitsUpper[k] = c) - 1

\* the printable ASCII characters, 32 to 126
Printable ==
    <<" ", "!", "\"", "#", "$", "%", "&", "'", "(", ")", "*", "+", ",", "-", ".", "/",
      "0", "1", "2", "3", "4", "5", "6", "7", "8", "9", ":", ";", "<", "=", ">", "?",
      "@", "A", "B", "C", "D", "E", "F", "G", "H", "I", "J", "K", "L", "M", "N", "O",
      "P", "Q", "R", "S", "T", "U", "V", "W", "X", "Y", "Z", "[", "\\", "]", "^", "_",
      "chr(96)", "a", "b", "c", "d", "e", "f", "g", "h", "i", "j", "k", "l", "m", "n", "o",
      "p", "q", "r", "s", "t", "u", "v", "w", "x", "y", "z", "{", "|", "}", "~">>

\* chr(n); a byte that is not printable is written chr(n)
chr(n) ==
    IF n >= 32 /\ n <= 126 THEN Printable[n - 31] ELSE "chr(" \o ToString(n) \o ")"

\* urllib.unquote: every %XX with two hex digits becomes the byte XX
RECURSIVE unquote(_)
unquote(s) ==
    IF s = <<>> THEN <<>>
    ELSE IF s[1] = "%" /\ Len(s) >= 3 /\ IsHex(s[2]) /\ IsHex(s[3])
         THEN <<chr(16 * HexVal(s[2]) + HexVal(s[3]))>> \o unquote(Drop(s, 3))
         ELSE <<s[1]>> \o unquote(Drop(s, 1))

\* urllib.unquote_plus: '+' is a space, then unquote
unquote_plus(s) == unquote([i \in DOMAIN s |-> IF s[i] = "+" THEN " " ELSE s[i]])

\* lines 606-610: the params, split at ';' and each at the first '='
split_params(text) ==
    IF text = None THEN <<>>
    ELSE LET ps == split(text, ";")
         IN  [k \in DOMAIN ps |->
                LET kv == split1(ps[k], "=")
                IN  [j \in DOMAIN kv |-> unquote(kv[j])]]

\* lines 611-615: the query, split at '&' and each at the first '='
split_query(text) ==
    IF text = None THEN <<>>
    ELSE LET ps == split(text, "&")
         IN  [k \in DOMAIN ps |->
                LET kv == split1(ps[k], "=")
                IN  [j \in DOMAIN kv |-> unquote_plus(kv[j])]]

\* lines 579-584: for c in '/?#': the first of these characters, in this
\* order, that occurs in u ends the network location; else the end of u.
\* The result is the 0-based index i of lines 585.
netloc_end(u) ==
    IF Find(u, "/") > 0 THEN Find(u, "/") - 1
    ELSE IF Find(u, "?") > 0 THEN Find(u, "?") - 1
    ELSE IF Find(u, "#") > 0 THEN Find(u, "#") - 1
    ELSE Len(u)

\* lines 586-594: the network location, split at the first '@', the user
\* information at its first ':' and the rest at its first ':'
split_netloc(hostAll) ==
    LET at == Find(hostAll, "@")
        userAll == IF at > 0 THEN Take(hostAll, at - 1) ELSE None
        hostPort == IF at > 0 THEN Drop(hostAll, at) ELSE hostAll
        uc == IF at > 0 THEN Find(userAll, ":") ELSE 0
        hc == Find(hostPort, ":")
    IN  [user |-> IF uc > 0 THEN Take(userAll, uc - 1) ELSE userAll,
         password |-> IF uc > 0 THEN Drop(userAll, uc) ELSE None,
         host |-> IF hc > 0 THEN Take(hostPort, hc - 1) ELSE hostPort,
         port |-> IF hc > 0 THEN Drop(hostPort, hc) ELSE None]

\* lines 577-594: [netloc, rest], netloc being [user, password, host, port]
parse_netloc(u0) ==
    IF ~startswith(u0, <<"/", "/">>)
    THEN [netloc |-> [user |-> None, password |-> None, host |-> None, port |-> None],
          rest |-> u0]
    ELSE LET u == Drop(u0, 2)
             i == netloc_end(u)
         IN  [netloc |-> split_netloc(Take(u, i)), rest |-> Drop(u, i)]

\* lines 595-604: fragment, then query, then params are cut off the rest
parse_rest(r0) ==
    LET f == Find(r0, "#")
        r1 == IF f > 0 THEN Take(r0, f - 1) ELSE r0
        q == Find(r1, "?")
        r2 == IF q > 0 THEN Take(r1, q - 1) ELSE r1
        p == Find(r2, ";")
    IN  [fragment |-> IF f > 0 THEN Drop(r0, f) ELSE None,
         query |-> IF q > 0 THEN Drop(r1, q) ELSE None,
         params |-> IF p > 0 THEN Drop(r2, p) ELSE None,
         path |-> IF p > 0 THEN Take(r2, p - 1) ELSE r2]

\* db_parse_uri: the parsed URI (Return) or sql_invalid_uri_exception (Raise)
db_parse_uri(u) ==
    LET i == Find(u, ":")
    IN  IF i = 0 THEN Raise(sql_invalid_uri_exception)
        ELSE LET n == parse_netloc(Drop(u, i))
                 r == parse_rest(n.rest)
             IN  Return([scheme |-> lower(Take(u, i - 1)),
                         user |-> n.netloc.user,
                         password |-> n.netloc.password,
                         host |-> n.netloc.host,
                         port |-> n.netloc.port,
                         path |-> r.path,
                         params |-> split_params(r.params),
                         query |-> split_query(r.query),
                         fragment |-> r.fragment])

(***************************************************************************)
(* The driver registry                                                     *)
(***************************************************************************)
Threads == {"t1", "t2"}

\* The threads that dispatch.  A dispatch writes no shared state but through
\* get_drivers, which every thread calls, so one dispatching thread beside
\* the others shows every interference there is.
Dispatchers == {"t1"}

\* The drivers.  d1 accepts the scheme x and, like the base class db_driver,
\* returns None from connect and create_pool; d2 serves x; d3 serves x and y.
Drivers == {"d1", "d2", "d3"}

\* db_driver.can_handle
can_handle(d, scheme) ==
    CASE d = "d1" -> scheme = <<"x">>
      [] d = "d2" -> scheme = <<"x">>
      [] d = "d3" -> scheme \in {<<"x">>, <<"y">>}

\* db_driver.connect: a db_connection of this driver, or None
connect(d) == IF d \in {"d2", "d3"} THEN <<"db_connection", d>> ELSE None

\* db_driver.create_pool: a db_pool of this driver, or None
create_pool(d) == IF d \in {"d2", "d3"} THEN <<"db_pool", d>> ELSE None

\* The files os.listdir may find in the package directory.
Files == {"driver_a.py", "driver_b.py", "driver_c.py", "legacy.py"}

\* The listings os.listdir may return: any of the files, in any order
Listings == UNION {Orderings(S) : S \in SUBSET Files}

\* line 268: p.startswith("driver_") and p.endswith(".py")
is_driver_file(p) == p \in {"driver_a.py", "driver_b.py", "driver_c.py"}

\* What a driver module does when it is imported: driver_a registers its
\* driver; driver_b cannot be loaded; driver_c calls get_drivers() and then
\* registers its driver.
module_body(p) ==
    CASE p = "driver_a.py" -> "register"
      [] p = "driver_b.py" -> "raise"
      [] p = "driver_c.py" -> "get_drivers"

module_driver(p) == IF p = "driver_a.py" THEN "d2" ELSE "d3"

\* register without the membership test of line 285
register_always(ds, d) == Append(ds, d)

\* lines 285-286: if driver not in _drivers: _drivers.append(driver)
register(ds, d) == IF d \in Range(ds) THEN ds ELSE Append(ds, d)

\* list_remove as list.discard would be: an absent driver is no error
list_remove_quiet(ds, d) ==
    IF d \notin Range(ds)
    THEN [list |-> ds, outcome |-> Return(None)]
    ELSE LET i == Find(ds, d)
         IN  [list |-> Take(ds, i - 1) \o Drop(ds, i), outcome |-> Return(None)]

\* line 297: _drivers.remove(driver), which raises ValueError when the driver
\* is absent and removes its first occurrence otherwise: [list, outcome]
list_remove(ds, d) ==
    IF d \notin Range(ds)
    THEN [list |-> ds, outcome |-> Raise(ValueError)]
    ELSE LET i == Find(ds, d)
         IN  [list |-> Take(ds, i - 1) \o Drop(ds, i), outcome |-> Return(None)]

\* except_pass without the handler: the exception stays in flight
except_reraise(st) == st

\* lines 270-271: except: pass
except_pass(st) == [st EXCEPT !.exc = None]

\* The discovery, as the thread holding the lock runs it.  st is
\* [drivers, sysmod, scans, done, exc]; exc is the exception in flight.
RECURSIVE import_module(_, _), scan_listing(_, _, _)

\* line 269: __import__, which runs the module unless sys.modules has it, and
\* drops the module from sys.modules again when its body raises
import_module(p, st) ==
    IF p \in st.sysmod THEN st
    ELSE
      LET s1 == [st EXCEPT !.sysmod = @ \cup {p}]
      IN  CASE module_body(p) = "register" ->
                 [s1 EXCEPT !.drivers = register(@, module_driver(p))]
            [] module_body(p) = "raise" ->
                 [s1 EXCEPT !.sysmod = @ \ {p}, !.exc = ImportError]
            [] module_body(p) = "get_drivers" ->
                 \* get_drivers, lines 307-308, and _drivers_init, lines 261-272,
                 \* called by the thread that holds the lock
                 LET s2 == IF s1.done THEN s1
                           ELSE LET s3 == scan_listing(1, [s1 EXCEPT !.scans = @ + 1], listing)
                                IN  IF s3.exc # None THEN s3 ELSE [s3 EXCEPT !.done = TRUE]
                 IN  IF s2.exc # None
                     THEN [s2 EXCEPT !.sysmod = @ \ {p}]
                     ELSE [s2 EXCEPT !.drivers = register(@, module_driver(p))]

\* lines 267-271: one file of the listing
load_candidate(p, st) ==
    IF is_driver_file(p) THEN except_pass(import_module(p, st)) ELSE st

\* lines 265-271, from the i-th file on; an exception in flight ends the loop
scan_listing(i, st, files) ==
    IF i > Len(files) \/ st.exc # None THEN st
    ELSE scan_listing(i + 1, load_candidate(files[i], st), files)

\* The state of the discovery, as a record and back
discovery_state ==
    [drivers |-> drivers, sysmod |-> sysModules, scans |-> scanCount,
     done |-> drivers_init_done, exc |-> None]

\* A thread that runs no call
Idle(t) == thread[t].pc = "idle"

\* RLock.acquire() does not block t
CanAcquire(t) == drivers_lock.owner \in {NoThread, t}

\* RLock.acquire() by t, when it does not block
acquire(lock, t) == [owner |-> t, count |-> lock.count + 1]

\* release forgotten: the lock stays as it is
release_forgotten(lock) == lock

\* RLock.release() by the owner
release(lock) ==
    [owner |-> IF lock.count = 1 THEN NoThread ELSE lock.owner, count |-> lock.count - 1]

NewCall(op, arg) ==
    [pc |-> "get_drivers", op |-> op, arg |-> arg, snapshot |-> <<>>, idx |-> 1,
     consulted |-> <<>>, asked |-> <<>>, outcome |-> NoOutcome]

\* The call returns or raises; its locals snapshot and idx are gone
Finished(th, outcome) ==
    [th EXCEPT !.pc = "idle", !.outcome = outcome, !.snapshot = <<>>, !.idx = 1]

\* register_driver, lines 283-288
RegisterDriver(t, d) ==
    /\ Idle(t) /\ CanAcquire(t)
    /\ drivers_lock' = release(acquire(drivers_lock, t))
    /\ drivers' = register(drivers, d)
    /\ thread' = [thread EXCEPT ![t] =
                    Finished(NewCall("register_driver", None), Return(None))]
    /\ UNCHANGED <<drivers_init_done, sysModules, listing, scanCount, uriVars, queryVars>>

\* unregister_driver, lines 295-299
UnregisterDriver(t, d) ==
    /\ Idle(t) /\ CanAcquire(t)
    /\ drivers_lock' = release(acquire(drivers_lock, t))
    /\ drivers' = list_remove(drivers, d).list
    /\ thread' = [thread EXCEPT ![t] =
                    Finished(NewCall("unregister_driver", None), list_remove(drivers, d).outcome)]
    /\ UNCHANGED <<drivers_init_done, sysModules, listing, scanCount, uriVars, queryVars>>

\* a call of get_drivers()
CallGetDrivers(t) ==
    /\ Idle(t)
    /\ thread' = [thread EXCEPT ![t] = NewCall("get_drivers", None)]
    /\ UNCHANGED <<drivers, drivers_init_done, drivers_lock, sysModules,
                   listing, scanCount, uriVars, queryVars>>

\* The URIs the threads dispatch on
DispatchURIs == { <<"X", ":", "/", "/", "a">>, <<"y", ":", "a">>, <<"a">> }

\* line 360, 380: parsed_uri = db_parse_uri(uri), the start of a dispatch
Dispatch(t, op, u) ==
    /\ Idle(t)
    /\ LET p == db_parse_uri(u)
       IN  thread' = [thread EXCEPT ![t] =
                        IF p.kind = "raise" THEN Finished(NewCall(op, None), p)
                        ELSE NewCall(op, p.value.scheme)]
    /\ UNCHANGED <<drivers, drivers_init_done, drivers_lock, sysModules,
                   listing, scanCount, uriVars, queryVars>>

CallDbConnect(t, u) == Dispatch(t, "db_connect", u)

CallDbCreatePool(t, u) == Dispatch(t, "db_create_pool", u)

\* line 309: return list(_drivers), and what the caller does with it
GotDrivers(th, ds) ==
    IF th.op = "get_drivers" THEN Finished(th, Return(ds))
    ELSE [th EXCEPT !.pc = "dispatch", !.snapshot = ds, !.idx = 1]

\* get_drivers, lines 305-311, up to the scan of _drivers_init (lines 259-264)
GetDrivers(t) ==
    /\ thread[t].pc = "get_drivers" /\ CanAcquire(t)
    /\ IF drivers_init_done
       THEN /\ thread' = [thread EXCEPT ![t] = GotDrivers(@, drivers)]
            /\ drivers_lock' = release(acquire(drivers_lock, t))
            /\ UNCHANGED <<scanCount, listing>>
       ELSE /\ thread' = [thread EXCEPT ![t].pc = "_drivers_init", ![t].idx = 1]
            /\ drivers_lock' = acquire(acquire(drivers_lock, t), t)
            /\ scanCount' = scanCount + 1
            /\ listing' \in Listings
    /\ UNCHANGED <<drivers, drivers_init_done, sysModules, uriVars, queryVars>>

\* _drivers_init, lines 265-271: one file of the listing.  An exception that
\* leaves the loop releases the lock twice (lines 273-274, 310-311) and
\* reaches the caller.
DriversInitStep(t) ==
    /\ thread[t].pc = "_drivers_init" /\ thread[t].idx <= Len(listing)
    /\ LET st == load_candidate(listing[thread[t].idx], discovery_state)
       IN  /\ drivers' = st.drivers
           /\ sysModules' = st.sysmod
           /\ scanCount' = st.scans
           /\ drivers_init_done' = st.done
           /\ IF st.exc # None
              THEN /\ thread' = [thread EXCEPT ![t] = Finished(@, Raise(st.exc))]
                   /\ drivers_lock' = release(release(drivers_lock))
              ELSE /\ thread' = [thread EXCEPT ![t].idx = @ + 1]
                   /\ UNCHANGED drivers_lock
           /\ listing' = IF st.exc # None THEN <<>> ELSE listing
    /\ UNCHANGED <<uriVars, queryVars>>

\* _drivers_init, lines 272-274, then get_drivers, lines 309-311
DriversInitDone(t) ==
    /\ thread[t].pc = "_drivers_init" /\ thread[t].idx > Len(listing)
    /\ drivers_init_done' = TRUE
    /\ drivers_lock' = release(release(drivers_lock))
    /\ thread' = [thread EXCEPT ![t] = GotDrivers(@, drivers)]
    /\ listing' = <<>>
    /\ UNCHANGED <<drivers, sysModules, scanCount, uriVars, queryVars>>

\* connect_step without the test of line 362: the first driver is asked
connect_step_untested(th) ==
    IF th.idx > Len(th.snapshot) THEN Finished(th, Raise(sql_no_driver_exception))
    ELSE LET d == th.snapshot[th.idx]
         IN  Finished([th EXCEPT !.consulted = Append(@, d), !.asked = Append(@, d)],
                      Return(connect(d)))

\* db_connect, lines 361-366: one turn of the loop, or the raise after it
connect_step(th) ==
    IF th.idx > Len(th.snapshot) THEN Finished(th, Raise(sql_no_driver_exception))
    ELSE LET d == th.snapshot[th.idx]
             seen == [th EXCEPT !.consulted = Append(@, d)]
         IN  IF can_handle(d, th.arg)
             THEN Finished([seen EXCEPT !.asked = Append(@, d)], Return(connect(d)))
             ELSE [seen EXCEPT !.idx = @ + 1]

DbConnectStep(t) ==
    /\ thread[t].pc = "dispatch" /\ thread[t].op = "db_connect"
    /\ thread' = [thread EXCEPT ![t] = connect_step(@)]
    /\ UNCHANGED <<drivers, drivers_init_done, drivers_lock, sysModules,
                   listing, scanCount, uriVars, queryVars>>

\* create_pool_step without the test of line 384: the first accepting
\* driver's answer is returned, as db_connect does
create_pool_step_first(th) ==
    IF th.idx > Len(th.snapshot) THEN Finished(th, Raise(sql_no_driver_exception))
    ELSE LET d == th.snapshot[th.idx]
             seen == [th EXCEPT !.consulted = Append(@, d)]
         IN  IF can_handle(d, th.arg)
             THEN Finished([seen EXCEPT !.asked = Append(@, d)], Return(create_pool(d)))
             ELSE [seen EXCEPT !.idx = @ + 1]

\* db_create_pool, lines 381-389: one turn of the loop, or the raise after it
create_pool_step(th) ==
    IF th.idx > Len(th.snapshot) THEN Finished(th, Raise(sql_no_driver_exception))
    ELSE LET d == th.snapshot[th.idx]
             seen == [th EXCEPT !.consulted = Append(@, d)]
         IN  IF can_handle(d, th.arg)
             THEN LET pool == create_pool(d)
                      tried == [seen EXCEPT !.asked = Append(@, d)]
                  IN  IF pool # None THEN Finished(tried, Return(pool))
                      ELSE [tried EXCEPT !.idx = @ + 1]
             ELSE [seen EXCEPT !.idx = @ + 1]

DbCreatePoolStep(t) ==
    /\ thread[t].pc = "dispatch" /\ thread[t].op = "db_create_pool"
    /\ thread' = [thread EXCEPT ![t] = create_pool_step(@)]
    /\ UNCHANGED <<drivers, drivers_init_done, drivers_lock, sysModules,
                   listing, scanCount, uriVars, queryVars>>

InitIdle ==
    [pc |-> "idle", op |-> "none", arg |-> None, snapshot |-> <<>>, idx |-> 1,
     consulted |-> <<>>, asked |-> <<>>, outcome |-> NoOutcome]

InitRegistry ==
    /\ drivers = <<>>
    /\ drivers_init_done = FALSE
    /\ drivers_lock = [owner |-> NoThread, count |-> 0]
    /\ sysModules = {}
    /\ scanCount = 0
    /\ listing = <<>>
    /\ thread = [t \in Threads |-> InitIdle]

Init ==
    /\ InitRegistry
    /\ uri = <<>> /\ parsed = NoOutcome
    /\ query = None /\ accepted = <<>> /\ params = <<>> /\ rewritten = NotRewritten

Next ==
    \E t \in Threads :
        \/ \E d \in Drivers : RegisterDriver(t, d)
        \/ \E d \in Drivers : UnregisterDriver(t, d)
        \/ CallGetDrivers(t)
        \/ t \in Dispatchers /\ \E u \in DispatchURIs : CallDbConnect(t, u)
        \/ t \in Dispatchers /\ \E u \in DispatchURIs : CallDbCreatePool(t, u)
        \/ GetDrivers(t)
        \/ DriversInitStep(t)
        \/ DriversInitDone(t)
        \/ DbConnectStep(t)
        \/ DbCreatePoolStep(t)

Spec == Init /\ [][Next]_vars

(***************************************************************************)
(* SpecUri: db_parse_uri on every URI of a bounded set                     *)
(***************************************************************************)
MaxUriLen == 4

UriChars == {"/", "?", "#", "@", ":", ";", "a"}

\* A URI with a network location, one without, and text with no scheme given
UriInputs ==
    {<<"X", ":", "/", "/">> \o r : r \in SeqsUpTo(UriChars, MaxUriLen)}
    \cup {<<"x", ":">> \o r : r \in SeqsUpTo(UriChars, MaxUriLen)}
    \cup SeqsUpTo(UriChars, MaxUriLen)

InitUri ==
    /\ InitRegistry
    /\ uri \in UriInputs /\ parsed = NoOutcome
    /\ query = None /\ accepted = <<>> /\ params = <<>> /\ rewritten = NotRewritten

ParseUri ==
    /\ parsed = NoOutcome
    /\ parsed' = db_parse_uri(uri)
    /\ UNCHANGED <<registryVars, uri, queryVars>>

NextUri == ParseUri

SpecUri == InitUri /\ [][NextUri]_vars

(***************************************************************************)
(* The registry and the dispatch: claims                                   *)
(***************************************************************************)
\* The thread runs the loop of db_connect or db_create_pool
Scanning(t, op) == thread[t].pc = "dispatch" /\ thread[t].op = op

\* The step ends the call of t
Ends(t) == thread[t].pc # "idle" /\ thread'[t].pc = "idle"

\* The positions of the list whose driver accepts the scheme
Accepting(ds, scheme) == {k \in DOMAIN ds : can_handle(ds[k], scheme)}

\* The positions of the list whose driver accepts the scheme and makes a pool
Pooling(ds, scheme) == {k \in Accepting(ds, scheme) : create_pool(ds[k]) # None}

\* C1: when db_connect returns, it returns what connect of the first driver
\* of the list get_drivers gave it (the registry, in registration order)
\* that accepts the scheme returned; the drivers before that one were asked
\* can_handle only, and no driver after it was asked anything.
C1_FirstAcceptingDriverConnects ==
    [][\A t \in Threads :
         (Scanning(t, "db_connect") /\ Ends(t) /\ thread'[t].outcome.kind = "return")
         => LET ds == thread[t].snapshot
                acc == Accepting(ds, thread[t].arg)
            IN  /\ acc # {}
                /\ thread'[t].outcome.value = connect(ds[Least(acc)])
                /\ thread'[t].consulted = Take(ds, Least(acc))
                /\ thread'[t].asked = <<ds[Least(acc)]>>]_vars

\* db_connect on the scheme y has skipped d1 and d2 and returned d3's connection
C1_Witness ==
    \E t \in Threads :
        /\ thread[t].op = "db_connect" /\ thread[t].pc = "idle"
        /\ thread[t].outcome = Return(<<"db_connection", "d3">>)
        /\ thread[t].consulted = <<"d1", "d2", "d3">>
        /\ thread[t].asked = <<"d3">>

\* C2: a normal return of db_connect is a connection, never None: when the
\* accepting driver returns no connection, db_connect raises
\* sql_no_driver_exception.
C2_ConnectNeverReturnsNone ==
    \A t \in Threads :
        (thread[t].op = "db_connect" /\ thread[t].pc = "idle"
            /\ thread[t].outcome.kind = "return")
        => thread[t].outcome.value # None

\* C3: db_create_pool returns the pool of the first driver of the list, in
\* registration order, that accepts the scheme and makes a pool, having asked
\* every accepting driver before it; it raises sql_no_driver_exception only
\* when no driver of the list accepts the scheme and makes a pool.
C3_CreatePoolScansPastDecliners ==
    [][\A t \in Threads :
         (Scanning(t, "db_create_pool") /\ Ends(t))
         => LET ds == thread[t].snapshot
                acc == Accepting(ds, thread[t].arg)
                pool == Pooling(ds, thread[t].arg)
            IN  IF pool # {}
                THEN /\ thread'[t].outcome = Return(create_pool(ds[Least(pool)]))
                     /\ thread'[t].consulted = Take(ds, Least(pool))
                     /\ thread'[t].asked = Pick(ds, {k \in acc : k <= Least(pool)})
                ELSE /\ thread'[t].outcome = Raise(sql_no_driver_exception)
                     /\ thread'[t].consulted = ds
                     /\ thread'[t].asked = Pick(ds, acc)]_vars

\* db_create_pool has gone past d1, which accepts x and makes no pool
C3_Witness ==
    \E t \in Threads :
        /\ thread[t].op = "db_create_pool" /\ thread[t].pc = "idle"
        /\ thread[t].outcome = Return(<<"db_pool", "d2">>)
        /\ thread[t].asked = <<"d1", "d2">>

\* C4, as claimed: the lock is held during the scan of a dispatch, so the
\* driver a dispatch is about to consult is in the registry.
C4_ConsultedDriverIsRegistered ==
    \A t \in Threads :
        (thread[t].pc = "dispatch" /\ thread[t].idx <= Len(thread[t].snapshot))
        => /\ drivers_lock.owner = t
           /\ thread[t].snapshot[thread[t].idx] \in Range(drivers)

\* C4, amended: the lock is held inside get_drivers only.  The scan of a
\* dispatch runs on the copy get_drivers returned, which is the registry as
\* it was at that moment, with the lock released: no later register or
\* unregister changes the copy, and the dispatch consults the drivers of the
\* copy in order.
C4_DispatchScansACopyUnlocked ==
    [][\A t \in Threads :
         /\ (thread[t].pc # "dispatch" /\ thread'[t].pc = "dispatch")
            => /\ thread'[t].snapshot = drivers
               /\ drivers_lock'.owner # t
         /\ thread[t].pc = "dispatch"
            => /\ drivers_lock.owner # t
               /\ thread[t].consulted = Take(thread[t].snapshot, thread[t].idx - 1)
               /\ thread'[t].pc = "dispatch"
                  => thread'[t].snapshot = thread[t].snapshot]_vars

\* a dispatch about to consult a driver that another thread has unregistered
C4_Witness ==
    \E t \in Threads :
        /\ thread[t].pc = "dispatch" /\ thread[t].idx = 2
        /\ Len(thread[t].snapshot) = 2
        /\ thread[t].snapshot[2] \notin Range(drivers)
        /\ drivers_lock.owner = NoThread

\* C5: the scan body of _drivers_init is entered at most once.
C5_DiscoveryRunsAtMostOnce == scanCount <= 1

\* C6: unregister_driver of a driver that is not registered raises (the
\* ValueError of list.remove is the error of the code here) and leaves the
\* registry list as it was, members and order.
C6_UnregisterAbsentFails ==
    [][\A t \in Threads : \A d \in Drivers :
         (UnregisterDriver(t, d) /\ d \notin Range(drivers))
         => /\ thread'[t].outcome = Raise(ValueError)
            /\ drivers' = drivers]_vars

\* an unregister_driver that failed, with two drivers registered
C6_Witness ==
    \E t \in Threads :
        /\ thread[t].op = "unregister_driver"
        /\ thread[t].outcome = Raise(ValueError)
        /\ Len(drivers) = 2

\* C7: a driver module that fails to load does not end the discovery: while
\* the discovery runs, every file before its position that is a driver module
\* able to load is loaded; the discovery ends only past the last file, with
\* _drivers_init_done set, and no exception reaches the caller.
C7_FailedLoadIsSkipped ==
    [][\A t \in Threads :
         thread[t].pc = "_drivers_init"
         => /\ \A k \in 1..(thread[t].idx - 1) :
                 (is_driver_file(listing[k]) /\ module_body(listing[k]) # "raise")
                 => listing[k] \in sysModules
            /\ thread'[t].pc # "_drivers_init"
               => /\ thread[t].idx > Len(listing)
                  /\ drivers_init_done'
                  /\ thread'[t].outcome.kind # "raise"]_vars

\* the discovery is past a module that failed and has loaded the one after it
C7_Witness ==
    \E t \in Threads :
        /\ thread[t].pc = "_drivers_init"
        /\ thread[t].idx > Len(listing)
        /\ listing = <<"driver_b.py", "driver_a.py">>
        /\ sysModules = {"driver_a.py"}
        /\ "d2" \in Range(drivers)

(***************************************************************************)
(* The query template rewriter                                             *)
(***************************************************************************)
\* sql[i] of Python, i counted from 0
At(s, i) == s[i + 1]

Digits == {Printable[k] : k \in 17..26}

\* [a-zA-Z_]
IdStart == {Printable[k] : k \in (34..59) \cup (66..91)} \cup {"_"}

\* [a-zA-Z_0-9]
IdChars == IdStart \cup Digits

\* A match is the 0-based index where it ends (m.end()); NoMatch when the
\* expression does not match at i.
NoMatch == -1

RECURSIVE id_run(_, _)
id_run(s, j) == IF j < Len(s) /\ At(s, j) \in IdChars THEN id_run(s, j + 1) ELSE j

\* query_param_re.match(s, i), line 391:  : [a-zA-Z_][a-zA-Z_0-9]*
query_param_re_match(s, i) ==
    IF i + 1 < Len(s) /\ At(s, i) = ":" /\ At(s, i + 1) \in IdStart
    THEN id_run(s, i + 2)
    ELSE NoMatch

RECURSIVE blank_run(_, _)
blank_run(s, j) ==
    IF j < Len(s) /\ At(s, j) \in {" ", "\t"} THEN blank_run(s, j + 1) ELSE j

\* line 392, the fourth alternative at a quote at j:  '[ \t]*\n[ \t*]'
quote_joint(s, j) ==
    LET k == blank_run(s, j + 1)
    IN  IF k + 2 < Len(s) /\ At(s, k) = "\n" /\ At(s, k + 1) \in {" ", "\t", "*"}
           /\ At(s, k + 2) = "'"
        THEN k + 3
        ELSE NoMatch

\* line 392 after the opening quote:  (?: [^'\\] | \\. | '' | joint )* '
\* The alternatives are tried in this order and the repetition is greedy:
\* at a quote, '' is tried first, then the joint, and the quote closes the
\* literal only when the rest does not match after either.
RECURSIVE quote_rest(_, _)
quote_rest(s, j) ==
    IF j >= Len(s) THEN NoMatch
    ELSE IF At(s, j) = "\\"
         THEN IF j + 1 < Len(s) THEN quote_rest(s, j + 2) ELSE NoMatch
    ELSE IF At(s, j) = "'"
         THEN LET r1 == IF j + 1 < Len(s) /\ At(s, j + 1) = "'"
                        THEN quote_rest(s, j + 2) ELSE NoMatch
                  r2 == IF quote_joint(s, j) # NoMatch
                        THEN quote_rest(s, quote_joint(s, j)) ELSE NoMatch
              IN  IF r1 # NoMatch THEN r1
                  ELSE IF r2 # NoMatch THEN r2
                  ELSE j + 1
    ELSE quote_rest(s, j + 1)

\* a query_quote_re that matches nowhere
query_quote_re_match_never(s, i) == NoMatch

\* query_quote_re.match(s, i), line 392
query_quote_re_match(s, i) ==
    IF i < Len(s) /\ At(s, i) = "'" THEN quote_rest(s, i + 1) ELSE NoMatch

RECURSIVE other_run(_, _)
other_run(s, j) ==
    IF j < Len(s) /\ At(s, j) \notin {":", "'"} THEN other_run(s, j + 1)
    ELSE IF j + 1 < Len(s) /\ At(s, j) = ":" /\ At(s, j + 1) = ":"
         THEN other_run(s, j + 2)
    ELSE j

\* query_other_re.match(s, i), line 393:  ([^:'] | ::)+
query_other_re_match(s, i) == IF other_run(s, i) > i THEN other_run(s, i) ELSE NoMatch

\* "%d" % n
RECURSIVE decimal(_)
decimal(n) ==
    IF n < 10 THEN <<Printable[17 + n]>>
    ELSE decimal(n \div 10) \o <<Printable[17 + (n % 10)]>>

Styles == {"qmark", "numeric", "named", "format", "pyformat"}

\* The styles whose methods use _map_params_positional
Positional == {"qmark", "numeric", "format"}

\* a param_func_named that writes the name without its colon
param_func_bare(style, param_name, num) ==
    CASE style = "qmark" -> <<"?">>
      [] style = "numeric" -> <<":">> \o decimal(num)
      [] style = "named" -> param_name
      [] style = "format" -> <<"%", "s">>
      [] style = "pyformat" -> <<"%", "(">> \o param_name \o <<")", "s">>

\* param_func_qmark, param_func_numeric, param_func_named, param_func_format
\* and param_func_pyformat (lines 503, 514, 527, 544, 561); num is
\* param_num[0] after line 515
param_func(style, param_name, num) ==
    CASE style = "qmark" -> <<"?">>
      [] style = "numeric" -> <<":">> \o decimal(num)
      [] style = "named" -> <<":">> \o param_name
      [] style = "format" -> <<"%", "s">>
      [] style = "pyformat" -> <<"%", "(">> \o param_name \o <<")", "s">>

\* x.replace('%', '%%')
RECURSIVE double_percent(_)
double_percent(x) ==
    IF x = <<>> THEN <<>>
    ELSE (IF x[1] = "%" THEN <<"%", "%">> ELSE <<x[1]>>) \o double_percent(Drop(x, 1))

\* an other_func that leaves every % single
other_func_noop(style, x) == x

\* noop (line 404), other_func_format and other_func_pyformat (lines 542, 559)
other_func(style, x) ==
    IF style \in {"format", "pyformat"} THEN double_percent(x) ELSE x

\* param_func_2 of lines 434-436 forgetting a name it has recorded already
param_func_2_once(param_names, param_name) ==
    IF param_name \in Range(param_names) THEN param_names
    ELSE Append(param_names, param_name)

\* line 435: param_names.append(param_name)
param_func_2(param_names, param_name) == Append(param_names, param_name)

\* _map_params, lines 407-430, from index i on; acc is [result,
\* param_names, param_num].  positional says that param_func is the
\* param_func_2 of _map_params_positional.
RECURSIVE map_params_loop(_, _, _, _, _)
map_params_loop(sql, i, acc, style, positional) ==
    IF i >= Len(sql) THEN acc
    ELSE
      LET pm == query_param_re_match(sql, i)
          qm == query_quote_re_match(sql, i)
          om == query_other_re_match(sql, i)
          name == SubSeq(sql, i + 2, pm)
          num == IF style = "numeric" THEN acc.param_num + 1 ELSE acc.param_num
          other(j) == [acc EXCEPT !.result = @ \o other_func(style, SubSeq(sql, i + 1, j))]
      IN  IF pm # NoMatch
          THEN map_params_loop(sql, pm,
                   [result |-> acc.result \o param_func(style, name, num),
                    param_names |-> IF positional
                                    THEN param_func_2(acc.param_names, name)
                                    ELSE acc.param_names,
                    param_num |-> num],
                   style, positional)
          ELSE IF qm # NoMatch THEN map_params_loop(sql, qm, other(qm), style, positional)
          ELSE IF om # NoMatch THEN map_params_loop(sql, om, other(om), style, positional)
          ELSE map_params_loop(sql, i + 1, other(i + 1), style, positional)

\* _map_params(sql, param_func, other_func), lines 399-430
map_params(sql, style) ==
    map_params_loop(sql, 0, [result |-> <<>>, param_names |-> <<>>, param_num |-> 0],
                    style, FALSE).result

\* _map_params_positional, lines 432-437: [sql, param_names]
map_params_positional(sql, style) ==
    LET r == map_params_loop(sql, 0,
                 [result |-> <<>>, param_names |-> <<>>, param_num |-> 0], style, TRUE)
    IN  [sql |-> r.result, param_names |-> r.param_names]

\* get_variant_sql as its docstring words it: the first variant given to
\* the query that is accepted
get_variant_sql_first_given(q, accepted_variants) ==
    LET ok == {j \in DOMAIN q.given : q.given[j][1] \in Range(accepted_variants)}
    IN  IF ok = {} THEN q.sql ELSE q.given[Least(ok)][2]

\* db_query.get_variant_sql, lines 492-495
RECURSIVE get_variant_sql(_, _)
get_variant_sql(q, accepted_variants) ==
    IF accepted_variants = <<>> THEN q.sql
    ELSE IF accepted_variants[1] \in DOMAIN q.variants
         THEN q.variants[accepted_variants[1]]
         ELSE get_variant_sql(q, Drop(accepted_variants, 1))

\* lookup leaving out the names the bindings lack
lookup_present(bindings, param_names) ==
    Return(Pick(param_names, {k \in DOMAIN param_names : param_names[k] \in DOMAIN bindings}))

\* [params[p] for p in param_names], lines 506, 518, 548: the first name the
\* bindings lack raises KeyError
lookup(bindings, param_names) ==
    IF \E k \in DOMAIN param_names : param_names[k] \notin DOMAIN bindings
    THEN Raise(KeyError)
    ELSE Return([k \in DOMAIN param_names |-> bindings[param_names[k]]])

\* get_variant_qmark_params, get_variant_numeric_params and
\* get_variant_format_params, lines 496-518 and 531-548
get_variant_positional_params(q, accepted_variants, bindings, style) ==
    LET r == map_params_positional(get_variant_sql(q, accepted_variants), style)
        args == lookup(bindings, r.param_names)
    IN  IF args.kind = "raise" THEN args
        ELSE Return([sql |-> r.sql, args |-> args.value])

\* get_variant_named_params and get_variant_pyformat_params, lines 519-530
\* and 549-564
get_variant_named_params(q, accepted_variants, bindings, style) ==
    Return([sql |-> map_params(get_variant_sql(q, accepted_variants), style),
            args |-> bindings])

\* The method of db_query for the style
get_variant_params(q, accepted_variants, bindings, style) ==
    IF style \in Positional
    THEN get_variant_positional_params(q, accepted_variants, bindings, style)
    ELSE get_variant_named_params(q, accepted_variants, bindings, style)

(***************************************************************************)
(* SpecQuery: the rewrite of every template of a bounded set               *)
(***************************************************************************)
MaxSqlLen == 4

SqlChars == {":", "a", "b", "'", "%"}

Templates == SeqsUpTo(SqlChars, MaxSqlLen)

\* The dict of a db_query that was given no variant
NoVariants == [v \in {} |-> <<>>]

\* The variants of a db_query and the variants a connection accepts
QueryShapes ==
    { [variants |-> NoVariants, accepted |-> <<"pg">>],
      [variants |-> [v \in {"pg"} |-> <<":", "b", "%", ":", "a", ":", "b">>],
       accepted |-> <<"ora", "pg">>],
      [variants |-> [v \in {"ora"} |-> <<":", "b">>], accepted |-> <<>>] }

ParamNames == {<<"a">>, <<"b">>}

\* The value bound to a name
ValueOf(name) == <<"value of">> \o name

\* The bindings a caller may give: some of the names, each with its value
Bindings == {[n \in S |-> ValueOf(n)] : S \in SUBSET ParamNames}

InitQuery ==
    /\ InitRegistry
    /\ uri = <<>> /\ parsed = NoOutcome
    /\ \E t \in Templates : \E shape \in QueryShapes :
          /\ query = [sql |-> t, variants |-> shape.variants]
          /\ accepted = shape.accepted
    /\ params \in Bindings
    /\ rewritten = NotRewritten

Rewrite(style) ==
    /\ rewritten = NotRewritten
    /\ rewritten' = [style |-> style,
                     out |-> get_variant_params(query, accepted, params, style)]
    /\ UNCHANGED <<registryVars, uriVars, query, accepted, params>>

NextQuery == \E style \in Styles : Rewrite(style)

SpecQuery == InitQuery /\ [][NextQuery]_vars

(***************************************************************************)
(* SpecQuote: the rewrite of templates made of quotes, backslashes, tokens  *)
(* and the joint of two adjacent literals                                  *)
(***************************************************************************)
MaxPieces == 5

QuotePieces ==
    { <<":", "a">>, <<"'">>, <<"\\">>, <<"b">>, <<"'", "\n", "*", "'">> }

RECURSIVE Concat(_)
Concat(ps) == IF ps = <<>> THEN <<>> ELSE ps[1] \o Concat(Drop(ps, 1))

QuoteTemplates == {Concat(ps) : ps \in SeqsUpTo(QuotePieces, MaxPieces)}

InitQuote ==
    /\ InitRegistry
    /\ uri = <<>> /\ parsed = NoOutcome
    /\ \E t \in QuoteTemplates : query = [sql |-> t, variants |-> NoVariants]
    /\ accepted = <<>>
    /\ params \in {b \in Bindings : <<"a">> \in DOMAIN b}
    /\ rewritten = NotRewritten

NextQuote == \E style \in Styles : Rewrite(style)

SpecQuote == InitQuote /\ [][NextQuote]_vars

(***************************************************************************)
(* SpecVariant: queries with variants, asked for the SQL of a connection   *)
(***************************************************************************)
MaxAccepted == 3

\* The dialect tags a query is given variants for
Tags == {"pg", "ora", "my"}

\* The tags a connection may accept; no query has a variant for "lite"
AcceptedTags == Tags \cup {"lite"}

VariantSql(tag) ==
    CASE tag = "pg" -> <<":", "a">>
      [] tag = "ora" -> <<":", "b", "%">>
      [] tag = "my" -> <<"'", ":", "a", "'", ":", "b">>

DefaultSql == <<":", "a", ":", "b">>

\* The keyword arguments of a db_query, in the order the caller wrote them:
\* a list of <<tag, sql>>, no tag twice
GivenVariants == UNION {{[k \in DOMAIN o |-> <<o[k], VariantSql(o[k])>>] : o \in Orderings(S)}
                        : S \in SUBSET Tags}

\* db_query(sql, **variants), lines 476-478; given is kept to state claims
db_query(sql, given) ==
    [sql |-> sql,
     variants |-> [v \in {given[k][1] : k \in DOMAIN given}
                     |-> given[CHOOSE k \in DOMAIN given : given[k][1] = v][2]],
     given |-> given]

InitVariant ==
    /\ InitRegistry
    /\ uri = <<>> /\ parsed = NoOutcome
    /\ \E given \in GivenVariants : query = db_query(DefaultSql, given)
    /\ accepted \in SeqsUpTo(AcceptedTags, MaxAccepted)
    /\ params \in {b \in Bindings : DOMAIN b = ParamNames}
    /\ rewritten = NotRewritten

\* q.get_variant_sql(accepted_variants), called by a connection
CallGetVariantSql ==
    /\ rewritten = NotRewritten
    /\ rewritten' = [style |-> "get_variant_sql",
                     out |-> Return(get_variant_sql(query, accepted))]
    /\ UNCHANGED <<registryVars, uriVars, query, accepted, params>>

NextVariant ==
    \/ CallGetVariantSql
    \/ \E style \in Styles : Rewrite(style)

SpecVariant == InitVariant /\ [][NextVariant]_vars

(***************************************************************************)
(* db_parse_uri: claims                                                    *)
(***************************************************************************)
\* The 0-based index of the earliest of '/', '?', '#' in u, Len(u) if none
EarliestDelimiter(u) ==
    IF \E k \in DOMAIN u : u[k] \in {"/", "?", "#"}
    THEN (CHOOSE k \in DOMAIN u :
            u[k] \in {"/", "?", "#"} /\ \A j \in 1..(k - 1) : u[j] \notin {"/", "?", "#"}) - 1
    ELSE Len(u)

\* C8: when what follows the scheme starts with //, the network location ends
\* at the earliest '/', '?' or '#' (or at the end): user, password, host and
\* port are those of that segment, and path, params, query and fragment are
\* those of what follows it.
C8_NetlocEndsAtEarliestDelimiter ==
    (parsed.kind = "return" /\ startswith(Drop(uri, Find(uri, ":")), <<"/", "/">>))
    => LET u == Drop(uri, Find(uri, ":") + 2)
           e == EarliestDelimiter(u)
           n == split_netloc(Take(u, e))
           r == parse_rest(Drop(u, e))
       IN  /\ parsed.value.user = n.user
           /\ parsed.value.password = n.password
           /\ parsed.value.host = n.host
           /\ parsed.value.port = n.port
           /\ parsed.value.path = r.path
           /\ parsed.value.params = split_params(r.params)
           /\ parsed.value.query = split_query(r.query)
           /\ parsed.value.fragment = r.fragment

(***************************************************************************)
(* The query template rewriter: claims                                     *)
(***************************************************************************)
\* The names of the parameter tokens of sql from index i on, in the order
\* of their occurrence
RECURSIVE ParamOccurrences(_, _)
ParamOccurrences(sql, i) ==
    IF i >= Len(sql) THEN <<>>
    ELSE IF query_param_re_match(sql, i) # NoMatch
         THEN <<SubSeq(sql, i + 2, query_param_re_match(sql, i))>>
              \o ParamOccurrences(sql, query_param_re_match(sql, i))
    ELSE IF query_quote_re_match(sql, i) # NoMatch
         THEN ParamOccurrences(sql, query_quote_re_match(sql, i))
    ELSE IF query_other_re_match(sql, i) # NoMatch
         THEN ParamOccurrences(sql, query_other_re_match(sql, i))
    ELSE ParamOccurrences(sql, i + 1)

\* The SQL the rewrite works on, and the names it refers to
SelectedSql == get_variant_sql(query, accepted)
Referenced == ParamOccurrences(SelectedSql, 0)
Covered == \A k \in DOMAIN Referenced : Referenced[k] \in DOMAIN params

\* The single % of a text in which %% is a literal %, read left to right
RECURSIVE SinglePercents(_)
SinglePercents(text) ==
    IF text = <<>> THEN 0
    ELSE IF text[1] = "%" /\ Len(text) >= 2 /\ text[2] = "%" THEN SinglePercents(Drop(text, 2))
    ELSE IF text[1] = "%" THEN 1 + SinglePercents(Drop(text, 1))
    ELSE SinglePercents(Drop(text, 1))

\* The placeholders read off the rewritten SQL.  The templates hold no '?',
\* no digit and no 's', so that every placeholder found was written by the
\* rewrite: the '?' of qmark, the ':' before a digit of numeric, the single
\* '%' of format.
Placeholders(style, text) ==
    CASE style = "qmark" -> Cardinality({k \in DOMAIN text : text[k] = "?"})
      [] style = "numeric" ->
            Cardinality({k \in 1..(Len(text) - 1) : text[k] = ":" /\ text[k + 1] \in Digits})
      [] style = "format" -> SinglePercents(text)

\* C9: in the styles qmark, numeric and format, with bindings that cover the
\* names of the selected SQL, the argument list has one entry for each
\* parameter token of the selected SQL, in the order of occurrence, the k-th
\* being the binding of the k-th token's name, and the rewritten SQL holds as
\* many placeholders as the list has entries.
C9_PositionalArgsFollowOccurrences ==
    (rewritten.style \in Positional /\ Covered)
    => /\ rewritten.out.kind = "return"
       /\ rewritten.out.value.args = [k \in DOMAIN Referenced |-> params[Referenced[k]]]
       /\ Placeholders(rewritten.style, rewritten.out.value.sql) = Len(Referenced)

\* three occurrences, one name twice
C9_Witness ==
    /\ rewritten.style = "numeric"
    /\ rewritten.out.kind = "return"
    /\ rewritten.out.value.args = <<ValueOf(<<"b">>), ValueOf(<<"a">>), ValueOf(<<"b">>)>>
    /\ rewritten.out.value.sql = <<":", "1", "%", ":", "2", ":", "3">>

\* C10, as claimed: in every style, a rewrite of SQL that refers to a name
\* the bindings lack raises.
C10_MissingNameRaisesInEveryStyle ==
    (rewritten.style \in Styles /\ ~Covered) => rewritten.out.kind = "raise"

\* C10, amended: when the selected SQL refers to a name the bindings lack,
\* the rewrite raises KeyError in the styles qmark, numeric and format; in
\* the styles named and pyformat it looks no name up and returns the SQL
\* with the bindings as they were given.
C10_MissingNameRaisesInPositionalStyles ==
    (rewritten.style \in Styles /\ ~Covered)
    => IF rewritten.style \in Positional
       THEN rewritten.out = Raise(KeyError)
       ELSE /\ rewritten.out.kind = "return"
            /\ rewritten.out.value.args = params

\* a template that refers to b, rewritten with a binding for a only
C10_Witness ==
    /\ rewritten.style = "qmark"
    /\ rewritten.out = Raise(KeyError)
    /\ DOMAIN params = {<<"a">>}
    /\ Referenced = <<<<"a">>, <<"b">>>>

(***************************************************************************)
(* Quoted literals                                                         *)
(***************************************************************************)
\* The 0-based index after the quote that closes the literal whose content
\* starts at j, read as SQL reads it and not through query_quote_exp: a
\* backslash takes the next character with it, two quotes in a row are a
\* quote of the content, and any other quote closes.  NoMatch when the text
\* ends before the literal is closed.
RECURSIVE literal_end(_, _)
literal_end(s, j) ==
    IF j >= Len(s) THEN NoMatch
    ELSE IF At(s, j) = "\\"
         THEN IF j + 1 < Len(s) THEN literal_end(s, j + 2) ELSE NoMatch
    ELSE IF At(s, j) = "'"
         THEN IF j + 1 < Len(s) /\ At(s, j + 1) = "'"
              THEN literal_end(s, j + 2) ELSE j + 1
    ELSE literal_end(s, j + 1)

\* The 0-based indices of s from i on that lie in a quoted literal, its two
\* quotes included.  A quote that nothing closes starts no literal.
RECURSIVE InLiteral(_, _)
InLiteral(s, i) ==
    IF i >= Len(s) THEN {}
    ELSE IF At(s, i) = "'" /\ literal_end(s, i + 1) # NoMatch
         THEN (i..(literal_end(s, i + 1) - 1)) \cup InLiteral(s, literal_end(s, i + 1))
    ELSE InLiteral(s, i + 1)

\* The 0-based indices, from i on, of the parameter tokens _map_params
\* hands to param_func, in the order of their occurrence
RECURSIVE BindingSites(_, _)
BindingSites(sql, i) ==
    IF i >= Len(sql) THEN <<>>
    ELSE IF query_param_re_match(sql, i) # NoMatch
         THEN <<i>> \o BindingSites(sql, query_param_re_match(sql, i))
    ELSE IF query_quote_re_match(sql, i) # NoMatch
         THEN BindingSites(sql, query_quote_re_match(sql, i))
    ELSE IF query_other_re_match(sql, i) # NoMatch
         THEN BindingSites(sql, query_other_re_match(sql, i))
    ELSE BindingSites(sql, i + 1)

\* The name of the colon-identifier sequence that starts at index i
NameAt(sql, i) == SubSeq(sql, i + 2, id_run(sql, i + 1))

\* The placeholders read off the rewritten SQL in a style that writes some.
\* The templates of SpecQuote hold no '?', no digit, no '%' and no '('.
Markers(style, text) ==
    IF style = "pyformat"
    THEN Cardinality({k \in DOMAIN text : text[k] = "("})
    ELSE Placeholders(style, text)

\* C11: a colon-identifier sequence inside a quoted literal of the template
\* (a literal with a backslash escape or a doubled quote included) is no
\* binding site.  Every token the rewrite binds lies outside the quoted
\* literals, the rewritten SQL holds one placeholder for each of them and no
\* other, and the argument list of the positional styles holds the bindings
\* of their names, in order, and nothing else.
C11_QuotedParamsAreInert ==
    (rewritten.style \in Styles /\ rewritten.out.kind = "return")
    => LET sites == BindingSites(SelectedSql, 0)
       IN  /\ \A k \in DOMAIN sites : sites[k] \notin InLiteral(SelectedSql, 0)
           /\ rewritten.style # "named"
              => Markers(rewritten.style, rewritten.out.value.sql) = Len(sites)
           /\ rewritten.style \in Positional
              => rewritten.out.value.args
                   = [k \in DOMAIN sites |-> params[NameAt(SelectedSql, sites[k])]]

\* a literal that holds an escaped quote and :a comes out as it went in
C11_Witness ==
    /\ query.sql = <<"'", "\\", "'", ":", "a", "'">>
    /\ InLiteral(query.sql, 0) = 0..5
    /\ rewritten.style = "qmark"
    /\ rewritten.out = Return([sql |-> query.sql, args |-> <<>>])

(***************************************************************************)
(* Spans                                                                   *)
(***************************************************************************)
\* The spans _map_params consumes from index i on, left to right, each as
\* <<start, end>> with 0-based start and end one past its last character
RECURSIVE Spans(_, _)
Spans(sql, i) ==
    IF i >= Len(sql) THEN <<>>
    ELSE LET pm == query_param_re_match(sql, i)
             qm == query_quote_re_match(sql, i)
             om == query_other_re_match(sql, i)
             e == IF pm # NoMatch THEN pm
                  ELSE IF qm # NoMatch THEN qm
                  ELSE IF om # NoMatch THEN om
                  ELSE i + 1
         IN  <<<<i, e>>>> \o Spans(sql, e)

\* The text of the spans, one after the other
RECURSIVE SpanText(_, _)
SpanText(sql, spans) ==
    IF spans = <<>> THEN <<>>
    ELSE SubSeq(sql, spans[1][1] + 1, spans[1][2]) \o SpanText(sql, Drop(spans, 1))

\* C12: the spans of the selected SQL are not empty, the first starts at the
\* start, each starts where the one before it ends and the last ends at the
\* end, so that their texts make up the SQL; and the rewrite in the named
\* style returns the selected SQL as it is.
C12_NamedRewriteIsIdentity ==
    rewritten.style = "named"
    => LET sql == SelectedSql
           spans == Spans(sql, 0)
       IN  /\ \A k \in DOMAIN spans : spans[k][1] < spans[k][2]
           /\ spans # <<>> => spans[1][1] = 0 /\ spans[Len(spans)][2] = Len(sql)
           /\ \A k \in 1..(Len(spans) - 1) : spans[k][2] = spans[k + 1][1]
           /\ SpanText(sql, spans) = sql
           /\ rewritten.out.kind = "return"
           /\ rewritten.out.value.sql = sql

\* a quote that nothing closes, a token, a colon with no name after it
C12_Witness ==
    /\ SelectedSql = <<"'", ":", "a", ":">>
    /\ Spans(SelectedSql, 0) = << <<0, 1>>, <<1, 3>>, <<3, 4>> >>
    /\ rewritten.style = "named"
    /\ rewritten.out.kind = "return"
    /\ rewritten.out.value.sql = <<"'", ":", "a", ":">>

(***************************************************************************)
(* Percent styles                                                          *)
(***************************************************************************)
\* The index of the first ")" of text, 0 if there is none
CloseParen(text) ==
    IF \E k \in DOMAIN text : text[k] = ")"
    THEN CHOOSE k \in DOMAIN text : text[k] = ")" /\ \A j \in 1..(k - 1) : text[j] # ")"
    ELSE 0

Malformed == <<"malformed">>

\* What the % operator of Python reads in text, written back as a template:
\* %% is a %, %s is the next of names, %(name)s is name, and a % followed
\* by anything else is malformed.  The names are written back as :name.
RECURSIVE PercentDecode(_, _)
PercentDecode(text, names) ==
    IF text = <<>> THEN <<>>
    ELSE IF text[1] # "%" THEN <<text[1]>> \o PercentDecode(Drop(text, 1), names)
    ELSE IF Len(text) >= 2 /\ text[2] = "%"
         THEN <<"%">> \o PercentDecode(Drop(text, 2), names)
    ELSE IF Len(text) >= 2 /\ text[2] = "s" /\ names # <<>>
         THEN <<":">> \o names[1] \o PercentDecode(Drop(text, 2), Drop(names, 1))
    ELSE IF Len(text) >= 2 /\ text[2] = "(" /\ CloseParen(text) > 0
            /\ CloseParen(text) < Len(text) /\ text[CloseParen(text) + 1] = "s"
         THEN <<":">> \o SubSeq(text, 3, CloseParen(text) - 1)
              \o PercentDecode(Drop(text, CloseParen(text) + 1), names)
    ELSE Malformed

\* C13: in the styles format and pyformat the rewritten SQL reads back, with
\* %% as % and %s or %(name)s as the parameter tokens, as the selected SQL:
\* every % of the template is doubled, in a quoted literal as in other text,
\* every parameter token is %s or %(name)s, and the single % of the output
\* are as many as the parameter tokens.
C13_PercentsDoubledOutsidePlaceholders ==
    (rewritten.style \in {"format", "pyformat"} /\ rewritten.out.kind = "return")
    => /\ PercentDecode(rewritten.out.value.sql,
                        IF rewritten.style = "format" THEN Referenced ELSE <<>>)
            = SelectedSql
       /\ SinglePercents(rewritten.out.value.sql) = Len(Referenced)

\* a % between tokens
C13_Witness ==
    /\ SelectedSql = <<":", "b", "%", ":", "a", ":", "b">>
    /\ rewritten.style = "pyformat"
    /\ rewritten.out.kind = "return"
    /\ rewritten.out.value.sql
         = <<"%", "(", "b", ")", "s", "%", "%", "%", "(", "a", ")", "s",
             "%", "(", "b", ")", "s">>

(***************************************************************************)
(* Variants                                                                *)
(***************************************************************************)
\* The positions of the accepted list whose tag the query was given a
\* variant for
Served == {k \in DOMAIN accepted : \E j \in DOMAIN query.given : query.given[j][1] = accepted[k]}

\* The SQL the query was given for the tag
GivenSql(tag) == query.given[CHOOSE j \in DOMAIN query.given : query.given[j][1] = tag][2]

NoDuplicates(ds) == \A i, j \in DOMAIN ds : ds[i] = ds[j] => i = j

\* C15: whatever step is taken (register_driver, unregister_driver, a step
\* of the discovery, which registers the drivers of the modules it loads),
\* the registry holds no driver twice; register_driver of a registered
\* driver leaves the list as it is, members and order; and after an
\* unregister_driver that did not raise the driver is not in the list.
C15_RegistryHoldsNoDuplicates ==
    [][/\ NoDuplicates(drivers')
       /\ \A t \in Threads : \A d \in Drivers :
            (RegisterDriver(t, d) /\ d \in Range(drivers)) => drivers' = drivers
       /\ \A t \in Threads : \A d \in Drivers :
            (UnregisterDriver(t, d) /\ thread'[t].outcome = Return(None))
            => /\ d \notin Range(drivers')
               /\ drivers' = Pick(drivers, {k \in DOMAIN drivers : drivers[k] # d})]_vars

\* t1 has called register_driver, the discovery has loaded driver_a.py, whose
\* module registers d2, and an unregister_driver of t2 that did not raise has
\* left the registry empty
C15_Witness ==
    /\ thread["t1"].op = "register_driver"
    /\ "driver_a.py" \in sysModules
    /\ drivers_init_done
    /\ thread["t2"].op = "unregister_driver"
    /\ thread["t2"].outcome = Return(None)
    /\ drivers = <<>>

====
